---- MODULE Spec2Model ----
(***************************************************************************)
(* drun (src/main.go): restart a Docker container with the latest image.   *)
(*                                                                         *)
(* A Go string is modelled as the sequence of its characters, each a       *)
(* one-character TLA+ string, so that prefix tests, trimming, joining and  *)
(* lower-casing are computed, not assumed.  A []string is a sequence of    *)
(* such sequences and a map[string][]Port is a function whose domain is    *)
(* the set of its keys.                                                    *)
(*                                                                         *)
(* Two specifications share the module:                                    *)
(*   Spec       one run of main() against the Docker daemon,               *)
(*   SynthSpec  generateRunCommand called on a descriptor, then called     *)
(*              again on a descriptor that differs from it at most in the  *)
(*              fields the function never reads.                           *)
(***************************************************************************)
EXTENDS Integers, Sequences, FiniteSets, TLC

VARIABLES
    pc,             \* position of main(): "none" when no process is modelled
    args,           \* os.Args
    container,      \* the configuration the daemon holds for the container
    original,       \* the daemon's state of the original container
    replacement,    \* TRUE once the daemon has started a replacement
    containerInfo,  \* main's containerInfo (what getContainerInfo returned)
    runCommand,     \* main's runCommand
    stdin,          \* what confirmExecution found on standard input
    steps,          \* the steps taken so far, each with its outcome
    exitCode,       \* the process's exit status, meaningful once pc = "exited"
    info,           \* SynthSpec: the descriptor under test
    synth           \* SynthSpec: the calls of generateRunCommand made so far

vars == <<pc, args, container, original, replacement, containerInfo, runCommand,
          stdin, steps, exitCode, info, synth>>

mainVars == <<pc, args, container, original, replacement, containerInfo,
              runCommand, stdin, steps, exitCode>>

(***************************************************************************)
(* Bounds of the model.                                                    *)
(***************************************************************************)
\* longest Env, Binds and Cmd list of a descriptor under test
MaxList == 2
\* most host bindings of one container port
MaxBindings == 2
\* most characters standard input holds when the prompt is read
MaxLine == 4

SeqsUpTo(S, n) == UNION {[1..k -> S] : k \in 0..n}

(***************************************************************************)
(* String literals of the program.                                         *)
(***************************************************************************)
StrDocker == <<"d", "o", "c", "k", "e", "r">>
StrRun == <<"r", "u", "n">>
StrDetach == <<"-", "d">>
StrNameFlag == <<"-", "-", "n", "a", "m", "e">>
StrRestartFlag == <<"-", "-", "r", "e", "s", "t", "a", "r", "t">>
StrVolumeFlag == <<"-", "v">>
StrPublishFlag == <<"-", "p">>
StrEnvFlag == <<"-", "e">>
StrPrivilegedFlag == <<"-", "-", "p", "r", "i", "v", "i", "l", "e", "g", "e", "d">>
StrPublishAllFlag == <<"-", "P">>
StrNetworkFlag == <<"-", "-", "n", "e", "t", "w", "o", "r", "k">>
StrDefault == <<"d", "e", "f", "a", "u", "l", "t">>
StrSlash == <<"/">>
StrSpace == <<" ">>
StrColon == <<":">>
StrY == <<"y">>
StrYes == <<"y", "e", "s">>

\* skipPatterns of shouldSkipEnv, in the order of the slice literal
skipPatterns ==
    << <<"P", "A", "T", "H", "=">>,
       <<"H", "O", "S", "T", "N", "A", "M", "E", "=">>,
       <<"H", "O", "M", "E", "=">>,
       <<"T", "E", "R", "M", "=">> >>

(***************************************************************************)
(* The standard-library functions the program calls.                       *)
(***************************************************************************)
\* strings.HasPrefix
HasPrefix(s, prefix) ==
    /\ Len(s) >= Len(prefix)
    /\ SubSeq(s, 1, Len(prefix)) = prefix

\* strings.TrimPrefix: s without the prefix, once, when it starts with it
TrimPrefix(s, prefix) ==
    IF HasPrefix(s, prefix) THEN SubSeq(s, Len(prefix) + 1, Len(s)) ELSE s

\* strings.Join
RECURSIVE Join(_, _)
Join(elems, sep) ==
    IF elems = <<>> THEN <<>>
    ELSE IF Len(elems) = 1 THEN elems[1]
    ELSE elems[1] \o sep \o Join(Tail(elems), sep)

\* fmt.Sprintf("%s:%s", a, b)
SprintfColon(a, b) == a \o StrColon \o b

\* unicode.ToLower on the letters of the model's alphabet
LowerChar(c) ==
    CASE c = "Y" -> "y"
      [] c = "E" -> "e"
      [] c = "S" -> "s"
      [] c = "N" -> "n"
      [] OTHER -> c

\* strings.ToLower
ToLower(s) == [i \in 1..Len(s) |-> LowerChar(s[i])]

\* unicode.IsSpace on the characters of the model's alphabet
IsSpace(c) == c \in {" ", "\t", "\n", "\r"}

\* strings.TrimSpace: leading white space off, then trailing white space off
RECURSIVE TrimLeftSpace(_)
TrimLeftSpace(s) ==
    IF s # <<>> /\ IsSpace(Head(s)) THEN TrimLeftSpace(Tail(s)) ELSE s

RECURSIVE TrimRightSpace(_)
TrimRightSpace(s) ==
    IF s # <<>> /\ IsSpace(s[Len(s)])
    THEN TrimRightSpace(SubSeq(s, 1, Len(s) - 1))
    ELSE s

TrimSpace(s) == TrimRightSpace(TrimLeftSpace(s))

\* bufio.Reader.ReadString('\n') on a fresh reader over the input: the text up
\* to and including the first delimiter, or all of it and io.EOF
RECURSIVE IndexOf(_, _, _)
IndexOf(s, c, i) ==
    IF i > Len(s) THEN 0
    ELSE IF s[i] = c THEN i
    ELSE IndexOf(s, c, i + 1)

ReadString(input, delim) ==
    LET n == IndexOf(input, delim, 1)
    IN  IF n = 0 THEN [response |-> input, err |-> TRUE]
        ELSE [response |-> SubSeq(input, 1, n), err |-> FALSE]

(***************************************************************************)
(* The descriptor: ContainerInfo, Port, RestartPolicy, NetworkInfo.        *)
(***************************************************************************)
\* type Port
Port(hostIP, hostPort) == [HostIP |-> hostIP, HostPort |-> hostPort]

\* type RestartPolicy
RestartPolicy(name, maximumRetryCount) ==
    [Name |-> name, MaximumRetryCount |-> maximumRetryCount]

\* type ContainerInfo
ContainerInfo(name, image, cmd, env, binds, portBindings, restartPolicy, networkMode, privileged, publishAllPorts, networks) ==
    [ Config |-> [Image |-> image, Cmd |-> cmd, Env |-> env],
      HostConfig |-> [ Binds |-> binds,
                       PortBindings |-> portBindings,
                       RestartPolicy |-> restartPolicy,
                       NetworkMode |-> networkMode,
                       Privileged |-> privileged,
                       PublishAllPorts |-> publishAllPorts ],
      NetworkSettings |-> [Networks |-> networks],
      Name |-> name ]

\* the empty map and the empty slice
EmptyMap == [k \in {} |-> <<>>]

\* the zero value of ContainerInfo
ZeroInfo ==
    ContainerInfo(<<>>, <<>>, <<>>, <<>>, <<>>, EmptyMap, RestartPolicy(<<>>, 0),
                  <<>>, FALSE, FALSE, EmptyMap)

(***************************************************************************)
(* shouldSkipEnv and generateRunCommand.                                   *)
(***************************************************************************)
\* a plausible slip: the patterns matched without their "=", so that PATHX=1
\* is dropped with PATH=...
RECURSIVE shouldSkipEnvKeyOnly(_, _)
shouldSkipEnvKeyOnly(env, i) ==
    IF i > Len(skipPatterns) THEN FALSE
    ELSE IF HasPrefix(env, SubSeq(skipPatterns[i], 1, Len(skipPatterns[i]) - 1))
         THEN TRUE
    ELSE shouldSkipEnvKeyOnly(env, i + 1)

\* the loop of shouldSkipEnv from pattern i on
RECURSIVE shouldSkipEnvFrom(_, _)
shouldSkipEnvFrom(env, i) ==
    IF i > Len(skipPatterns) THEN FALSE
    ELSE IF HasPrefix(env, skipPatterns[i]) THEN TRUE
    ELSE shouldSkipEnvFrom(env, i + 1)

shouldSkipEnv(env) == shouldSkipEnvFrom(env, 1)

\* for _, bind := range info.HostConfig.Binds
RECURSIVE AppendBinds(_, _)
AppendBinds(p, binds) ==
    IF binds = <<>> THEN p
    ELSE AppendBinds(p \o <<StrVolumeFlag, Head(binds)>>, Tail(binds))

\* a plausible slip: the HostPort test left out
RECURSIVE AppendBindingsUnfiltered(_, _, _)
AppendBindingsUnfiltered(p, port, bindings) ==
    IF bindings = <<>> THEN p
    ELSE AppendBindingsUnfiltered(
             p \o <<StrPublishFlag, SprintfColon(Head(bindings).HostPort, port)>>,
             port, Tail(bindings))

\* for _, binding := range bindings
RECURSIVE AppendBindings(_, _, _)
AppendBindings(p, port, bindings) ==
    IF bindings = <<>> THEN p
    ELSE AppendBindings(
             IF Head(bindings).HostPort # <<>>
             THEN p \o <<StrPublishFlag,
                         SprintfColon(Head(bindings).HostPort, port)>>
             ELSE p,
             port, Tail(bindings))

\* for port, bindings := range info.HostConfig.PortBindings, the keys visited
\* in the given order
RECURSIVE AppendPorts(_, _, _)
AppendPorts(p, portBindings, order) ==
    IF order = <<>> THEN p
    ELSE AppendPorts(AppendBindings(p, Head(order), portBindings[Head(order)]),
                     portBindings, Tail(order))

\* for _, env := range info.Config.Env
RECURSIVE AppendEnv(_, _)
AppendEnv(p, env) ==
    IF env = <<>> THEN p
    ELSE AppendEnv(IF ~shouldSkipEnv(Head(env))
                   THEN p \o <<StrEnvFlag, Head(env)>>
                   ELSE p,
                   Tail(env))

\* The orders in which a range statement may visit the keys of a map: Go
\* leaves the iteration order of a map unspecified and the runtime varies it
\* from one loop to the next, so every permutation of the keys is possible.
RangeOrders(m) ==
    LET n == Cardinality(DOMAIN m)
    IN  {o \in [1..n -> DOMAIN m] : \A i, j \in 1..n : o[i] = o[j] => i = j}

\* a plausible slip: the image appended before the network flag
partsImageFirst(d, order) ==
    LET hc == d.HostConfig
        p1 == <<StrDocker, StrRun, StrDetach>>
        p2 == p1 \o <<StrNameFlag, TrimPrefix(d.Name, StrSlash)>>
        p3 == IF hc.RestartPolicy.Name # <<>>
              THEN p2 \o <<StrRestartFlag, hc.RestartPolicy.Name>>
              ELSE p2
        p4 == AppendBinds(p3, hc.Binds)
        p5 == AppendPorts(p4, hc.PortBindings, order)
        p6 == AppendEnv(p5, d.Config.Env)
        p7 == IF hc.Privileged THEN p6 \o <<StrPrivilegedFlag>> ELSE p6
        p8 == IF hc.PublishAllPorts THEN p7 \o <<StrPublishAllFlag>> ELSE p7
        p9 == p8 \o <<d.Config.Image>>
        p10 == IF hc.NetworkMode # <<>> /\ hc.NetworkMode # StrDefault
               THEN p9 \o <<StrNetworkFlag, hc.NetworkMode>>
               ELSE p9
    IN  IF Len(d.Config.Cmd) > 0 THEN p10 \o d.Config.Cmd ELSE p10

\* the value of parts when generateRunCommand returns, the port map having been
\* ranged over in the given order
parts(d, order) ==
    LET hc == d.HostConfig
        p1 == <<StrDocker, StrRun, StrDetach>>
        p2 == p1 \o <<StrNameFlag, TrimPrefix(d.Name, StrSlash)>>
        p3 == IF hc.RestartPolicy.Name # <<>>
              THEN p2 \o <<StrRestartFlag, hc.RestartPolicy.Name>>
              ELSE p2
        p4 == AppendBinds(p3, hc.Binds)
        p5 == AppendPorts(p4, hc.PortBindings, order)
        p6 == AppendEnv(p5, d.Config.Env)
        p7 == IF hc.Privileged THEN p6 \o <<StrPrivilegedFlag>> ELSE p6
        p8 == IF hc.PublishAllPorts THEN p7 \o <<StrPublishAllFlag>> ELSE p7
        p9 == IF hc.NetworkMode # <<>> /\ hc.NetworkMode # StrDefault
              THEN p8 \o <<StrNetworkFlag, hc.NetworkMode>>
              ELSE p8
        p10 == p9 \o <<d.Config.Image>>
    IN  IF Len(d.Config.Cmd) > 0 THEN p10 \o d.Config.Cmd ELSE p10

generateRunCommand(d, order) == Join(parts(d, order), StrSpace)

(***************************************************************************)
(* confirmExecution.                                                       *)
(***************************************************************************)
\* a plausible slip: the read error not tested, so that an answer cut short by
\* the end of input is taken
confirmExecutionIgnoringErr(input) ==
    LET r == ReadString(input, "\n")
        response == TrimSpace(ToLower(r.response))
    IN  response = StrY \/ response = StrYes

confirmExecution(input) ==
    LET r == ReadString(input, "\n")
    IN  IF r.err THEN FALSE
        ELSE LET response == TrimSpace(ToLower(r.response))
             IN  response = StrY \/ response = StrYes

(***************************************************************************)
(* The descriptors under test.  Every list field of a descriptor is drawn  *)
(* from all the sequences up to a bound over a few entries that differ in  *)
(* the way the code can tell apart; a descriptor varies one group of       *)
(* fields at a time around two fixed descriptors, and the scalar fields    *)
(* all at once.                                                            *)
(***************************************************************************)
NameSlashWeb == <<"/", "w", "e", "b">>
NameWeb == <<"w", "e", "b">>
ImageApp == <<"a", "p", "p", ":", "l", "a", "t", "e", "s", "t">>
ImageDb == <<"d", "b">>
BindData == <<"/", "d", "a", "t", "a", ":", "/", "d", "a", "t", "a">>
BindEtc == <<"/", "e", "t", "c", ":", "/", "e", "t", "c", ":", "r", "o">>
CmdServe == <<"s", "e", "r", "v", "e">>
CmdVerbose == <<"-", "-", "v", "e", "r", "b", "o", "s", "e">>
EnvPath == <<"P", "A", "T", "H", "=", "/", "u", "s", "r", "/", "b", "i", "n">>
EnvHostname == <<"H", "O", "S", "T", "N", "A", "M", "E", "=", "h">>
EnvHome == <<"H", "O", "M", "E", "=", "/", "r", "o", "o", "t">>
EnvTerm == <<"T", "E", "R", "M", "=", "x", "t", "e", "r", "m">>
EnvPathX == <<"P", "A", "T", "H", "X", "=", "1">>
EnvLowerPath == <<"p", "a", "t", "h", "=", "1">>
EnvMyHome == <<"M", "Y", "H", "O", "M", "E", "=", "1">>
EnvKey == <<"K", "E", "Y", "=", "1">>
Port80 == <<"8", "0", "/", "t", "c", "p">>
Port443 == <<"4", "4", "3", "/", "t", "c", "p">>
HostPort8080 == <<"8", "0", "8", "0">>
HostPort8443 == <<"8", "4", "4", "3">>
HostIPLoopback == <<"1", "2", "7", ".", "0", ".", "0", ".", "1">>
PolicyAlways == <<"a", "l", "w", "a", "y", "s">>
NetBridge2 == <<"b", "r", "i", "d", "g", "e", "2">>
NetworkIDOne == <<"n", "1">>

Names == {NameSlashWeb, NameWeb}
Images == {ImageApp, ImageDb}
BindEntries == {BindData, BindEtc}
CmdEntries == {CmdServe, CmdVerbose}
EnvEntries ==
    {EnvPath, EnvHostname, EnvHome, EnvTerm, EnvPathX, EnvLowerPath, EnvMyHome, EnvKey}
PortKeys == {Port80, Port443}
HostPorts == {<<>>, HostPort8080, HostPort8443}
HostIPs == {<<>>, HostIPLoopback}
PolicyNames == {<<>>, PolicyAlways}
RetryCounts == {0, 5}
NetworkModes == {<<>>, StrDefault, NetBridge2}
NetworkMaps == {EmptyMap, [k \in {NetBridge2} |-> [NetworkID |-> NetworkIDOne]]}

\* every port map over PortKeys: a key is absent or bound to a list of bindings
PortMaps ==
    UNION { [keys -> SeqsUpTo({Port(<<>>, hp) : hp \in HostPorts}, MaxBindings)]
            : keys \in SUBSET PortKeys }

\* a container with nothing configured, and one with everything configured
BareInfo ==
    ContainerInfo(NameWeb, ImageDb, <<>>, <<>>, <<>>, EmptyMap,
                  RestartPolicy(<<>>, 0), <<>>, FALSE, FALSE, EmptyMap)

FullInfo ==
    ContainerInfo(NameSlashWeb, ImageApp, <<CmdServe>>, <<EnvPath, EnvKey>>,
                  <<BindData>>,
                  [k \in PortKeys |->
                      IF k = Port80 THEN <<Port(<<>>, HostPort8080)>>
                      ELSE <<Port(<<>>, HostPort8443)>>],
                  RestartPolicy(PolicyAlways, 0), NetBridge2, TRUE, TRUE, EmptyMap)

WithEnv(d, env) == [d EXCEPT !.Config.Env = env]
WithBinds(d, binds) == [d EXCEPT !.HostConfig.Binds = binds]
WithCmd(d, cmd) == [d EXCEPT !.Config.Cmd = cmd]
WithPortBindings(d, m) == [d EXCEPT !.HostConfig.PortBindings = m]

Descriptors ==
    UNION { {WithEnv(d, l) : l \in SeqsUpTo(EnvEntries, MaxList)}
            \cup {WithBinds(d, l) : l \in SeqsUpTo(BindEntries, MaxList)}
            \cup {WithCmd(d, l) : l \in SeqsUpTo(CmdEntries, MaxList)}
            \cup {WithPortBindings(d, m) : m \in PortMaps}
            \cup { [d EXCEPT !.Name = n, !.Config.Image = i,
                             !.HostConfig.RestartPolicy.Name = r,
                             !.HostConfig.NetworkMode = nm,
                             !.HostConfig.Privileged = pr,
                             !.HostConfig.PublishAllPorts = pa]
                   : <<n, i, r, nm, pr, pa>> \in
                       Names \X Images \X PolicyNames \X NetworkModes
                             \X BOOLEAN \X BOOLEAN }
            : d \in {BareInfo, FullInfo} }

\* The descriptors that differ from d at most in what generateRunCommand never
\* reads: the retry count, the host interfaces, the networks.
Variants(d) ==
    { [d EXCEPT !.HostConfig.RestartPolicy.MaximumRetryCount = rc,
                !.NetworkSettings.Networks = nets,
                !.HostConfig.PortBindings =
                    [k \in DOMAIN @ |->
                        [i \in 1..Len(@[k]) |-> [@[k][i] EXCEPT !.HostIP = ip[k]]]]]
      : <<rc, nets, ip>> \in
          RetryCounts \X NetworkMaps \X [DOMAIN d.HostConfig.PortBindings -> HostIPs] }

(***************************************************************************)
(* SynthSpec: generateRunCommand under test.                               *)
(***************************************************************************)
\* what one call of generateRunCommand was given, did and returned
Call(d, order) ==
    [ info |-> d, order |-> order, parts |-> parts(d, order),
      command |-> generateRunCommand(d, order) ]

Idle ==
    /\ pc = "none"
    /\ args = <<>>
    /\ container = ZeroInfo
    /\ original = "absent"
    /\ replacement = FALSE
    /\ containerInfo = ZeroInfo
    /\ runCommand = <<>>
    /\ stdin = <<>>
    /\ steps = <<>>
    /\ exitCode = 0

SynthInit ==
    /\ Idle
    /\ info \in Descriptors
    /\ synth = <<>>

FirstCall ==
    /\ pc = "none"
    /\ Len(synth) = 0
    /\ \E order \in RangeOrders(info.HostConfig.PortBindings) :
           synth' = <<Call(info, order)>>
    /\ UNCHANGED <<mainVars, info>>

SecondCall ==
    /\ pc = "none"
    /\ Len(synth) = 1
    /\ \E d \in Variants(info) :
       \E order \in RangeOrders(d.HostConfig.PortBindings) :
           synth' = Append(synth, Call(d, order))
    /\ UNCHANGED <<mainVars, info>>

SynthNext == FirstCall \/ SecondCall

SynthSpec == SynthInit /\ [][SynthNext]_vars

(***************************************************************************)
(* Properties of generateRunCommand (SynthSpec).                           *)
(***************************************************************************)
\* the values of the given flag in a token list, in order
RECURSIVE FlagValues(_, _)
FlagValues(p, flag) ==
    IF Len(p) < 2 THEN <<>>
    ELSE IF p[1] = flag THEN <<p[2]>> \o FlagValues(SubSeq(p, 3, Len(p)), flag)
    ELSE FlagValues(Tail(p), flag)

\* how often x occurs in seq
CountIn(seq, x) == Cardinality({i \in DOMAIN seq : seq[i] = x})

\* a flag before each element of a list
Flagged(flag, list) ==
    [i \in 1..(2 * Len(list)) |-> IF i % 2 = 1 THEN flag ELSE list[i \div 2]]

\* the keys of the deny-list
DenyKeys ==
    { <<"P", "A", "T", "H">>, <<"H", "O", "S", "T", "N", "A", "M", "E">>,
      <<"H", "O", "M", "E">>, <<"T", "E", "R", "M">> }

\* the entry is KEY=VALUE with KEY exactly a key of the deny-list
Denied(entry) ==
    \E n \in 1..Len(entry) :
        /\ entry[n] = "="
        /\ SubSeq(entry, 1, n - 1) \in DenyKeys

KeptEnv(d) == SelectSeq(d.Config.Env, LAMBDA e : ~Denied(e))

\* the bindings of a descriptor that have a host port, as <<port, index>>
BoundPorts(d) ==
    LET pb == d.HostConfig.PortBindings
    IN  {ki \in UNION {{<<k, i>> : i \in DOMAIN pb[k]} : k \in DOMAIN pb} :
             pb[ki[1]][ki[2]].HostPort # <<>>}

\* C2: two calls of generateRunCommand on the same descriptor return the same
\* string, also when two or more container ports have a host port bound.
C2_Deterministic ==
    (Len(synth) = 2 /\ synth[2].info = synth[1].info)
        => synth[2].command = synth[1].command

\* C5: the -e flags of the command are, in descriptor order, exactly the
\* environment entries whose key is none of PATH, HOSTNAME, HOME, TERM, each
\* verbatim: a denied entry gives no flag, every other entry (PATHX=1, path=1,
\* MYHOME=1 too) gives one.
C5_EnvDenyList ==
    \A c \in 1..Len(synth) :
        FlagValues(synth[c].parts, StrEnvFlag) = KeptEnv(synth[c].info)

C5_Witness ==
    /\ Len(synth) >= 1
    /\ synth[1].info.Config.Env = <<EnvHome, EnvMyHome>>
    /\ FlagValues(synth[1].parts, StrEnvFlag) = <<EnvMyHome>>

\* C6: every binding with a non-empty host port gives exactly one -p flag,
\* hostPort:containerPort, and a binding with an empty host port gives none: the
\* command has as many -p flags as there are bindings with a host port, and
\* hostPort:port occurs as often as port has bindings with that host port.
C6_PortBindingFilter ==
    \A c \in 1..Len(synth) :
        LET pb == synth[c].info.HostConfig.PortBindings
            values == FlagValues(synth[c].parts, StrPublishFlag)
        IN  /\ Len(values) = Cardinality(BoundPorts(synth[c].info))
            /\ \A ki \in BoundPorts(synth[c].info) :
                   LET hp == pb[ki[1]][ki[2]].HostPort
                   IN  CountIn(values, hp \o StrColon \o ki[1])
                         = Cardinality({i \in DOMAIN pb[ki[1]] :
                                            pb[ki[1]][i].HostPort = hp})

C6_Witness ==
    /\ Len(synth) >= 1
    /\ LET pb == synth[1].info.HostConfig.PortBindings
       IN  /\ DOMAIN pb = PortKeys
           /\ pb[Port80] = <<Port(<<>>, <<>>), Port(<<>>, <<>>)>>
           /\ pb[Port443] = <<Port(<<>>, HostPort8443), Port(<<>>, <<>>)>>
    /\ FlagValues(synth[1].parts, StrPublishFlag)
         = << HostPort8443 \o StrColon \o Port443 >>

\* C7: the tokens are, in this order: docker run -d, --name and the name
\* without its leading "/", --restart and the policy name if it is not empty,
\* a -v flag per bind in order, the -p flags, the -e flags, --privileged if set,
\* -P if set, --network and the mode if it is neither empty nor "default", the
\* image, the command arguments in order.
C7_TokenOrder ==
    \A c \in 1..Len(synth) :
        LET d == synth[c].info
            hc == d.HostConfig
            p == synth[c].parts
            before ==
                <<StrDocker, StrRun, StrDetach>>
                \o <<StrNameFlag,
                     IF d.Name # <<>> /\ d.Name[1] = "/" THEN Tail(d.Name) ELSE d.Name>>
                \o (IF hc.RestartPolicy.Name = <<>> THEN <<>>
                    ELSE <<StrRestartFlag, hc.RestartPolicy.Name>>)
                \o Flagged(StrVolumeFlag, hc.Binds)
            after ==
                Flagged(StrEnvFlag, KeptEnv(d))
                \o (IF hc.Privileged THEN <<StrPrivilegedFlag>> ELSE <<>>)
                \o (IF hc.PublishAllPorts THEN <<StrPublishAllFlag>> ELSE <<>>)
                \o (IF hc.NetworkMode \in {<<>>, StrDefault} THEN <<>>
                    ELSE <<StrNetworkFlag, hc.NetworkMode>>)
                \o <<d.Config.Image>>
                \o d.Config.Cmd
            publish == 2 * Cardinality(BoundPorts(d))
        IN  /\ Len(p) = Len(before) + publish + Len(after)
            /\ SubSeq(p, 1, Len(before)) = before
            /\ \A i \in 1..publish :
                   i % 2 = 1 => p[Len(before) + i] = StrPublishFlag
            /\ SubSeq(p, Len(before) + publish + 1, Len(p)) = after
            /\ synth[c].command = Join(p, StrSpace)

C7_Witness ==
    /\ Len(synth) >= 1
    /\ synth[1].info = FullInfo
    /\ synth[1].parts[Len(synth[1].parts) - 1] = ImageApp
    /\ synth[1].parts[Len(synth[1].parts)] = CmdServe
    /\ synth[1].parts[Len(synth[1].parts) - 2] = NetBridge2

\* two descriptors agree on every field generateRunCommand reads
SameReadFields(a, b) ==
    /\ a.Name = b.Name
    /\ a.Config = b.Config
    /\ a.HostConfig.Binds = b.HostConfig.Binds
    /\ DOMAIN a.HostConfig.PortBindings = DOMAIN b.HostConfig.PortBindings
    /\ \A k \in DOMAIN a.HostConfig.PortBindings :
           /\ Len(a.HostConfig.PortBindings[k]) = Len(b.HostConfig.PortBindings[k])
           /\ \A i \in DOMAIN a.HostConfig.PortBindings[k] :
                  a.HostConfig.PortBindings[k][i].HostPort
                    = b.HostConfig.PortBindings[k][i].HostPort
    /\ a.HostConfig.RestartPolicy.Name = b.HostConfig.RestartPolicy.Name
    /\ a.HostConfig.NetworkMode = b.HostConfig.NetworkMode
    /\ a.HostConfig.Privileged = b.HostConfig.Privileged
    /\ a.HostConfig.PublishAllPorts = b.HostConfig.PublishAllPorts

\* C9: two descriptors that differ only in the retry count, in the host
\* interface of bindings or in the networks synthesize the same command, and
\* the policy name "always" gives --restart always for every retry count.
C9_OnlyReadFieldsInfluence ==
    /\ (Len(synth) = 2 /\ SameReadFields(synth[1].info, synth[2].info))
           => synth[2].command = synth[1].command
    /\ \A c \in 1..Len(synth) :
           synth[c].info.HostConfig.RestartPolicy.Name = PolicyAlways
               => FlagValues(synth[c].parts, StrRestartFlag) = <<PolicyAlways>>

\* What remains of C2 and C9 in the code: the fields that are not read change
\* nothing once the port map is ranged over in the same order, and the restart
\* flag never depends on the retry count.
SameOrderSameCommand ==
    /\ (Len(synth) = 2 /\ synth[1].order = synth[2].order)
           => synth[2].command = synth[1].command
    /\ \A c \in 1..Len(synth) :
           synth[c].info.HostConfig.RestartPolicy.Name = PolicyAlways
               => FlagValues(synth[c].parts, StrRestartFlag) = <<PolicyAlways>>

\* ... and with at most one port that has a host port the order is immaterial
OnePortSameCommand ==
    (Len(synth) = 2
       /\ Cardinality({ki[1] : ki \in BoundPorts(synth[1].info)}) <= 1)
        => synth[2].command = synth[1].command

(***************************************************************************)
(* Spec: one run of main().  Every call of the docker command line is a    *)
(* step; the daemon is free to fail any of them.  A successful stop leaves *)
(* the original container stopped, a successful rm removes it and a        *)
(* successful run starts the replacement.                                  *)
(***************************************************************************)
StrDrun == <<"d", "r", "u", "n">>

\* the characters standard input is made of
StdinChars == {"y", "Y", "e", "E", "s", "n", " ", "\n"}

\* the containers the daemon may hold: nothing configured, everything
\* configured, and one with a single published port on the default network
ExampleInfo ==
    ContainerInfo(NameSlashWeb, ImageApp, <<CmdServe>>, <<EnvPath, EnvKey>>,
                  <<BindData>>,
                  [k \in {Port80} |-> <<Port(<<>>, HostPort8080)>>],
                  RestartPolicy(PolicyAlways, 0), StrDefault, FALSE, FALSE, EmptyMap)

Containers == {BareInfo, FullInfo, ExampleInfo}

\* what `docker inspect` may answer: a failed command, output that is not the
\* expected JSON, or a JSON array of the matching containers
InspectAnswers ==
    { [failed |-> TRUE, json |-> FALSE, containers |-> <<>>],
      [failed |-> FALSE, json |-> FALSE, containers |-> <<>>],
      [failed |-> FALSE, json |-> TRUE, containers |-> <<>>] }
    \cup (IF original = "absent" THEN {}
          ELSE { [failed |-> FALSE, json |-> TRUE, containers |-> <<container>>],
                 [failed |-> FALSE, json |-> TRUE,
                  containers |-> <<container, BareInfo>>] })

Step(op, arg, ok) == [op |-> op, arg |-> arg, ok |-> ok]

\* os.Exit(code), or main returning (code 0)
Exit(code) ==
    /\ pc' = "exited"
    /\ exitCode' = code

Init ==
    /\ pc = "start"
    /\ args \in {<<StrDrun>>, <<StrDrun, NameWeb>>}
    /\ container \in Containers
    /\ original \in {"running", "stopped", "absent"}
    /\ replacement = FALSE
    /\ containerInfo = ZeroInfo
    /\ runCommand = <<>>
    /\ stdin = <<>>
    /\ steps = <<>>
    /\ exitCode = 0
    /\ info = ZeroInfo
    /\ synth = <<>>

\* main: the argument check
CheckArgs ==
    /\ pc = "start"
    /\ IF Len(args) < 2 THEN Exit(1) ELSE pc' = "inspect" /\ UNCHANGED exitCode
    /\ UNCHANGED <<args, container, original, replacement, containerInfo,
                   runCommand, stdin, steps, info, synth>>

\* main: containerInfo, err := getContainerInfo(containerName)
GetContainerInfo ==
    /\ pc = "inspect"
    /\ \E a \in InspectAnswers :
           LET ok == ~a.failed /\ a.json /\ Len(a.containers) # 0
           IN  /\ steps' = Append(steps, Step("inspect", args[2], ok))
               /\ IF ok
                  THEN /\ containerInfo' = a.containers[1]
                       /\ pc' = "stop"
                       /\ UNCHANGED exitCode
                  ELSE /\ Exit(1)
                       /\ UNCHANGED containerInfo
    /\ UNCHANGED <<args, container, original, replacement, runCommand, stdin,
                   info, synth>>

\* a plausible slip: the error of `docker stop` dropped
StopContainerIgnoringErr ==
    /\ pc = "stop"
    /\ \E ok \in BOOLEAN :
           /\ steps' = Append(steps, Step("stop", args[2], ok))
           /\ original' = IF ok THEN "stopped" ELSE original
           /\ pc' = "remove"
    /\ UNCHANGED <<args, container, replacement, containerInfo, runCommand,
                   stdin, exitCode, info, synth>>

\* stopAndRemoveContainer: docker stop
StopContainer ==
    /\ pc = "stop"
    /\ \E ok \in BOOLEAN :
           /\ steps' = Append(steps, Step("stop", args[2], ok))
           /\ IF ok
              THEN /\ original' = "stopped"
                   /\ pc' = "remove"
                   /\ UNCHANGED exitCode
              ELSE /\ Exit(1)
                   /\ UNCHANGED original
    /\ UNCHANGED <<args, container, replacement, containerInfo, runCommand,
                   stdin, info, synth>>

\* a plausible slip: the error of `docker rm` dropped
RemoveContainerIgnoringErr ==
    /\ pc = "remove"
    /\ \E ok \in BOOLEAN :
           /\ steps' = Append(steps, Step("remove", args[2], ok))
           /\ original' = IF ok THEN "removed" ELSE original
           /\ pc' = "pull"
    /\ UNCHANGED <<args, container, replacement, containerInfo, runCommand,
                   stdin, exitCode, info, synth>>

\* stopAndRemoveContainer: docker rm
RemoveContainer ==
    /\ pc = "remove"
    /\ \E ok \in BOOLEAN :
           /\ steps' = Append(steps, Step("remove", args[2], ok))
           /\ IF ok
              THEN /\ original' = "removed"
                   /\ pc' = "pull"
                   /\ UNCHANGED exitCode
              ELSE /\ Exit(1)
                   /\ UNCHANGED original
    /\ UNCHANGED <<args, container, replacement, containerInfo, runCommand,
                   stdin, info, synth>>

\* a plausible slip: a failed pull answered by starting the old image again
PullLatestImageThenRestore ==
    /\ pc = "pull"
    /\ \E ok \in BOOLEAN :
           /\ steps' = Append(steps, Step("pull", containerInfo.Config.Image, ok))
           /\ IF ok
              THEN /\ pc' = "synthesize"
                   /\ UNCHANGED <<exitCode, replacement>>
              ELSE /\ Exit(1)
                   /\ replacement' = TRUE
    /\ UNCHANGED <<args, container, original, containerInfo, runCommand,
                   stdin, info, synth>>

\* main: pullLatestImage(imageName)
PullLatestImage ==
    /\ pc = "pull"
    /\ \E ok \in BOOLEAN :
           /\ steps' = Append(steps, Step("pull", containerInfo.Config.Image, ok))
           /\ IF ok
              THEN /\ pc' = "synthesize"
                   /\ UNCHANGED exitCode
              ELSE Exit(1)
    /\ UNCHANGED <<args, container, original, replacement, containerInfo,
                   runCommand, stdin, info, synth>>

\* main: runCommand := generateRunCommand(containerInfo)
GenerateRunCommand ==
    /\ pc = "synthesize"
    /\ \E order \in RangeOrders(containerInfo.HostConfig.PortBindings) :
           runCommand' = generateRunCommand(containerInfo, order)
    /\ steps' = Append(steps, Step("synthesize", <<>>, TRUE))
    /\ pc' = "confirm"
    /\ UNCHANGED <<args, container, original, replacement, containerInfo,
                   stdin, exitCode, info, synth>>

\* main: if !confirmExecution() { return }
ConfirmExecution ==
    /\ pc = "confirm"
    /\ \E input \in SeqsUpTo(StdinChars, MaxLine) :
           /\ stdin' = input
           /\ steps' = Append(steps, Step("confirm", <<>>, confirmExecution(input)))
           /\ IF confirmExecution(input)
              THEN pc' = "run" /\ UNCHANGED exitCode
              ELSE Exit(0)
    /\ UNCHANGED <<args, container, original, replacement, containerInfo,
                   runCommand, info, synth>>

\* a plausible slip: the error of the run dropped
ExecuteCommandIgnoringErr ==
    /\ pc = "run"
    /\ \E ok \in BOOLEAN :
           /\ steps' = Append(steps, Step("run", runCommand, ok))
           /\ replacement' = ok
           /\ Exit(0)
    /\ UNCHANGED <<args, container, original, containerInfo, runCommand,
                   stdin, info, synth>>

\* main: executeCommand(runCommand)
ExecuteCommand ==
    /\ pc = "run"
    /\ \E ok \in BOOLEAN :
           /\ steps' = Append(steps, Step("run", runCommand, ok))
           /\ replacement' = ok
           /\ IF ok THEN Exit(0) ELSE Exit(1)
    /\ UNCHANGED <<args, container, original, containerInfo, runCommand,
                   stdin, info, synth>>

Next ==
    \/ CheckArgs
    \/ GetContainerInfo
    \/ StopContainer
    \/ RemoveContainer
    \/ PullLatestImage
    \/ GenerateRunCommand
    \/ ConfirmExecution
    \/ ExecuteCommand

Spec == Init /\ [][Next]_vars

(***************************************************************************)
(* Properties of main (Spec).                                              *)
(***************************************************************************)
\* the steps of a run, in program order
Pipeline == <<"inspect", "stop", "remove", "pull", "synthesize", "confirm", "run">>

\* the step with the given name has been taken / has been taken and succeeded
Taken(op) == \E i \in 1..Len(steps) : steps[i].op = op
Succeeded(op) == \E i \in 1..Len(steps) : steps[i].op = op /\ steps[i].ok
Failed(op) == \E i \in 1..Len(steps) : steps[i].op = op /\ ~steps[i].ok

\* The line the operator typed is an answer "y" or "yes": the input holds a
\* line end, and what precedes the first one is, white space at both ends and
\* the case of letters apart, y or yes.
Accepts(input) ==
    \E n \in 1..Len(input) :
        /\ input[n] = "\n"
        /\ \A k \in 1..(n - 1) : input[k] # "\n"
        /\ \E a, b \in 1..n :
               /\ \A k \in (1..n) \ (a..b) : input[k] \in {" ", "\t", "\r", "\n"}
               /\ LET word == [k \in 1..(b - a + 1) |-> input[a + k - 1]]
                  IN  \/ /\ Len(word) = 1
                         /\ word[1] \in {"y", "Y"}
                      \/ /\ Len(word) = 3
                         /\ word[1] \in {"y", "Y"}
                         /\ word[2] \in {"e", "E"}
                         /\ word[3] \in {"s", "S"}

\* C1: the steps are taken in the order inspect, stop, remove, pull,
\* synthesize, confirm, run; a step is taken only if every earlier one
\* succeeded, so no daemon call follows a failed inspect, stop, remove or
\* pull, and run is called only after all four succeeded and the operator's
\* answer was accepted.
C1_CallOrder ==
    /\ Len(steps) <= Len(Pipeline)
    /\ \A i \in 1..Len(steps) :
           /\ steps[i].op = Pipeline[i]
           /\ i < Len(steps) => steps[i].ok
    /\ Taken("run") =>
           /\ Succeeded("inspect") /\ Succeeded("stop")
           /\ Succeeded("remove") /\ Succeeded("pull")
           /\ Succeeded("confirm")

C1_Witness ==
    /\ pc = "exited"
    /\ Succeeded("run")
    /\ Len(steps) = 7

\* C3: the exit status is non-zero whenever a stage failed (missing argument,
\* inspect, decode, not found, stop, remove, pull, run) and is zero exactly
\* when the run succeeded or the operator declined.
C3_ExitStatus ==
    pc = "exited" =>
        /\ ( \/ Len(args) < 2
             \/ Failed("inspect") \/ Failed("stop") \/ Failed("remove")
             \/ Failed("pull") \/ Failed("run") ) => exitCode # 0
        /\ exitCode = 0 <=> (Succeeded("run") \/ Failed("confirm"))

C3_Witness ==
    /\ pc = "exited"
    /\ Failed("run")
    /\ exitCode = 1

\* C4: when stop and remove succeeded and the pull failed, the run has ended
\* with the original container removed, nothing started in its place, no call
\* after the pull and a non-zero exit status.
C4_NoCompensation ==
    (Succeeded("stop") /\ Succeeded("remove") /\ Failed("pull")) =>
        /\ pc = "exited"
        /\ exitCode # 0
        /\ original = "removed"
        /\ replacement = FALSE
        /\ Len(steps) = 4
        /\ ~Taken("run")

C4_Witness ==
    /\ pc = "exited"
    /\ Succeeded("stop") /\ Succeeded("remove") /\ Failed("pull")
    /\ original = "removed"

\* C8: run is called only if the line read from the operator, lower-cased and
\* trimmed, is "y" or "yes"; after any other input, and after a read that
\* fails (the input ends before a line end), the run is over without the call.
C8_ConfirmationGate ==
    /\ Taken("run") => Accepts(stdin)
    /\ (Taken("confirm") /\ ~Accepts(stdin)) =>
           /\ pc = "exited"
           /\ Failed("confirm")
           /\ ~Taken("run")

C8_Witness ==
    /\ Succeeded("run")
    /\ stdin = <<" ", "Y", " ", "\n">>

\* C10: when the prompt is reached, stop, remove and pull have succeeded; a run
\* the operator declines therefore ends with exit status 0, the original
\* container stopped and removed and no replacement started.
C10_ConfirmAfterTeardown ==
    /\ (pc = "confirm" \/ Taken("confirm")) =>
           /\ Succeeded("stop") /\ Succeeded("remove") /\ Succeeded("pull")
           /\ original = "removed"
    /\ (pc = "exited" /\ Failed("confirm")) =>
           /\ exitCode = 0
           /\ original = "removed"
           /\ replacement = FALSE
           /\ ~Taken("run")

C10_Witness ==
    /\ pc = "exited"
    /\ Failed("confirm")
    /\ original = "removed"
    /\ exitCode = 0

====
